---- MODULE Spec2Model ----
(* A model of package travis (src/travis.go): the webhook verification       *)
(* pipeline GetPayloadFromRequest, the process-wide key cache travisPubKey   *)
(* filled by travisPublicKey, and the unauthenticated decoder GetPayload.    *)
(*                                                                           *)
(* Goroutines of the host call GetPayloadFromRequest concurrently.  A call   *)
(* is cut into steps at its accesses to shared state: the read of the cache  *)
(* slot (line 158), the network fetch (line 162), the write of the slot      *)
(* (line 182) and the read that returns it (line 184).  Everything between   *)
(* two such accesses is local to the call and belongs to the step before it. *)
(* The request of a call does not change while the call runs and nothing of  *)
(* it beyond method and content type is read before line 113, so an          *)
(* in-flight call carries only the part of the request it has read; the      *)
(* whole request is recorded with the outcome of the call in `last`.         *)
EXTENDS Integers, Sequences, FiniteSets, TLC

VARIABLES travisPubKey, endpoint, pc, seen, key, steps, assigns, served, unfetched,
          race, last, probe

vars == <<travisPubKey, endpoint, pc, seen, key, steps, assigns, served, unfetched,
          race, last, probe>>

(* ------------------------------------------------------------------ *)
(* Bounds                                                               *)
(* ------------------------------------------------------------------ *)

\* Number of goroutines of the host that may be inside the package at once.
NumProcs == 2

Procs == 1 .. NumProcs

(* ------------------------------------------------------------------ *)
(* Values                                                               *)
(* ------------------------------------------------------------------ *)

\* The nil *rsa.PublicKey.
Nil == "nil"

\* RSA keys the provider may publish: its key and the key after a rotation.
RSAKeys == {"K1", "K2"}

\* Keys that can sign: the provider's, and one the provider never publishes.
Signers == RSAKeys \cup {"KA"}

ContentTypeForm == "application/x-www-form-urlencoded"

NoErr == [msg |-> "", arg |-> ""]

Err(m) == [msg |-> m, arg |-> ""]

ErrArg(m, a) == [msg |-> m, arg |-> a]

(* ------------------------------------------------------------------ *)
(* JSON texts and the Payload entity                                    *)
(* ------------------------------------------------------------------ *)

\* A text is the sequence of its top-level tokens: each token is a complete
\* JSON value or a fragment that is not JSON.  The empty text is <<>>.
ObjA == "{id:1,status_message:Passed,type:push}"

ObjB == "{id:2,status_message:Failed,type:cron}"

ArrC == "[1]"

Junk == "}junk"

Tokens == {ObjA, ObjB, ArrC, Junk}

\* *Payload is nil.
NilPayload == [isNil |-> TRUE, ID |-> 0, StatusMessage |-> "", ResultMessage |-> "", Type |-> ""]

\* The struct a JSON object decodes into (fields of type Payload the model keeps).
Payload(id, status, type) ==
    [isNil |-> FALSE, ID |-> id, StatusMessage |-> status, ResultMessage |-> "", Type |-> type]

IsJSONValue(tok) == tok \in {ObjA, ObjB, ArrC}

\* A text is syntactically valid JSON iff it is exactly one JSON value.
ValidJSON(text) == Len(text) = 1 /\ IsJSONValue(text[1])

\* Storing one JSON value into a Payload struct: an object fills the fields,
\* any other value is a type error.
unmarshalValue(tok) ==
    CASE tok = ObjA -> [err |-> FALSE, p |-> Payload(1, "Passed", "push")]
      [] tok = ObjB -> [err |-> FALSE, p |-> Payload(2, "Failed", "cron")]
      [] OTHER -> [err |-> TRUE, p |-> NilPayload]

\* json.Unmarshal: the whole text must be one valid JSON value.
jsonUnmarshal(text) ==
    IF ValidJSON(text) THEN unmarshalValue(text[1]) ELSE [err |-> TRUE, p |-> NilPayload]

\* json.NewDecoder(r).Decode: reads the next JSON value of the stream and
\* stops there; what follows the value is not read.
jsonDecoderDecode(stream) ==
    IF Len(stream) > 0 /\ IsJSONValue(stream[1])
    THEN unmarshalValue(stream[1])
    ELSE [err |-> TRUE, p |-> NilPayload]

\* An io.Reader argument: the nil interface, or a stream holding a text.
NilReader == [isNil |-> TRUE, data |-> <<>>]

Reader(text) == [isNil |-> FALSE, data |-> text]

\* GetPayload (lines 84-94).
GetPayload(r) ==
    IF r.isNil
    THEN [payload |-> NilPayload, err |-> Err("can't parse from nil reader")]
    ELSE LET d == jsonDecoderDecode(r.data)
         IN IF d.err
            THEN [payload |-> NilPayload, err |-> Err("cannot decode payload")]
            ELSE [payload |-> d.p, err |-> NoErr]

(* ------------------------------------------------------------------ *)
(* Signatures                                                           *)
(* ------------------------------------------------------------------ *)

\* payloadDigest (lines 217-221): SHA-1 of the bytes of the text.  Distinct
\* texts of the model have distinct digests.
payloadDigest(payload) == <<"sha1", payload>>

\* Signature bytes: the PKCS#1 v1.5 signature of a digest under a signer's
\* private key, or bytes that are no such signature.
Sign(k, digest) == [signer |-> k, digest |-> digest]

GarbageBytes == [signer |-> "none", digest |-> <<>>]

\* A verification that checks the signer and not the digest.
VerifySignerOnly(k, digest, sig) == sig.signer = k

\* rsa.VerifyPKCS1v15(key, crypto.SHA1, digest, sig) returns nil.
VerifyPKCS1v15(k, digest, sig) == sig.signer = k /\ sig.digest = digest

\* Values of the Signature header as Header.Get returns them: "" when the
\* header is absent or empty, standard base64 of some bytes, or a text that
\* is not base64.
EmptyHeader == [enc |-> "empty", raw |-> GarbageBytes]

NotBase64 == [enc |-> "invalid", raw |-> GarbageBytes]

Base64(bytes) == [enc |-> "b64", raw |-> bytes]

\* The base64 text of some bytes with a character outside the alphabet
\* appended.
Base64ThenIllegal(bytes) == [enc |-> "b64+illegal", raw |-> bytes]

\* base64.StdEncoding.DecodeString: the bytes of a text that is base64 from
\* end to end, no bytes for the empty text, an error for any other text.
DecodeString(s) ==
    CASE s.enc = "b64" -> [err |-> FALSE, bytes |-> s.raw]
      [] s.enc = "empty" -> [err |-> FALSE, bytes |-> GarbageBytes]
      [] OTHER -> [err |-> TRUE, bytes |-> GarbageBytes]

\* parsePayloadSignature without the test of line 207.
parsePayloadSignatureNoEmptyTest(r) ==
    LET d == DecodeString(r.signature)
    IN IF d.err
       THEN [bytes |-> GarbageBytes, err |-> Err("cannot decode signature")]
       ELSE [bytes |-> d.bytes, err |-> NoErr]

\* parsePayloadSignature (lines 205-215).
parsePayloadSignature(r) ==
    IF r.signature = EmptyHeader
    THEN [bytes |-> GarbageBytes, err |-> Err("missing Signature header")]
    ELSE LET d == DecodeString(r.signature)
         IN IF d.err
            THEN [bytes |-> GarbageBytes, err |-> Err("cannot decode signature")]
            ELSE [bytes |-> d.bytes, err |-> NoErr]

(* ------------------------------------------------------------------ *)
(* The provider's configuration endpoint and the key it publishes       *)
(* ------------------------------------------------------------------ *)

\* The public_key text of the configuration: label is the type of its PEM
\* block ("" when the text holds no PEM block, as when the field is missing),
\* der the bytes of the block.
PemText(label, der) == [label |-> label, der |-> der]

\* What http.Get and the JSON decoding of the body yield: a transport error,
\* a body that is not JSON, or a configuration document.
Response(neterr, json, pemtext) == [neterr |-> neterr, json |-> json, public_key |-> pemtext]

NoPem == PemText("", <<>>)

Unreachable == Response(TRUE, FALSE, NoPem)

NotJSONBody == Response(FALSE, FALSE, NoPem)

KeyResponse(k) == Response(FALSE, TRUE, PemText("PUBLIC KEY", <<"pkix", "RSA", k>>))

\* A well-formed PKIX public key that is not RSA (an ECDSA key).
NonRSAResponse == Response(FALSE, TRUE, PemText("PUBLIC KEY", <<"pkix", "ECDSA", "E1">>))

Responses ==
    { Unreachable,
      NotJSONBody,
      Response(FALSE, TRUE, NoPem),
      Response(FALSE, TRUE, PemText("RSA PUBLIC KEY", <<"pkix", "RSA", "K1">>)),
      Response(FALSE, TRUE, PemText("PUBLIC KEY", <<"junk", "", "">>)),
      NonRSAResponse }
    \cup { KeyResponse(k) : k \in RSAKeys }

\* pem.Decode: the first PEM block of the text, or nil.
pemDecode(text) ==
    IF text.label = ""
    THEN [isNil |-> TRUE, Type |-> "", Bytes |-> <<>>]
    ELSE [isNil |-> FALSE, Type |-> text.label, Bytes |-> text.der]

\* x509.ParsePKIXPublicKey: the key of a PKIX SubjectPublicKeyInfo, whatever
\* its algorithm, or an error.
ParsePKIXPublicKey(der) ==
    IF Len(der) = 3 /\ der[1] = "pkix"
    THEN [err |-> FALSE, alg |-> der[2], key |-> der[3]]
    ELSE [err |-> TRUE, alg |-> "", key |-> Nil]

\* parsePublicKey without the block type test of line 192.
parsePublicKeyAnyType(text) ==
    LET block == pemDecode(text)
    IN IF block.isNil
       THEN [key |-> Nil, err |-> Err("invalid public key"), panic |-> FALSE]
       ELSE LET pk == ParsePKIXPublicKey(block.Bytes)
            IN IF pk.err
               THEN [key |-> Nil, err |-> Err("invalid public key"), panic |-> FALSE]
               ELSE IF pk.alg = "RSA"
                    THEN [key |-> pk.key, err |-> NoErr, panic |-> FALSE]
                    ELSE [key |-> Nil, err |-> NoErr, panic |-> TRUE]

\* parsePublicKey (lines 187-203).  The type assertion of line 201 has no
\* comma-ok form: on a key that is not *rsa.PublicKey it panics.
parsePublicKey(text) ==
    LET block == pemDecode(text)
    IN IF block.isNil \/ block.Type /= "PUBLIC KEY"
       THEN [key |-> Nil, err |-> Err("invalid public key"), panic |-> FALSE]
       ELSE LET pk == ParsePKIXPublicKey(block.Bytes)
            IN IF pk.err
               THEN [key |-> Nil, err |-> Err("invalid public key"), panic |-> FALSE]
               ELSE IF pk.alg = "RSA"
                    THEN [key |-> pk.key, err |-> NoErr, panic |-> FALSE]
                    ELSE [key |-> Nil, err |-> NoErr, panic |-> TRUE]

\* travisPublicKey from the http.Get of line 162 to the parsePublicKey of
\* line 179, on the response the endpoint gives.
fetchKey(resp) ==
    IF resp.neterr
    THEN [key |-> Nil, err |-> Err("cannot fetch travis public key"), panic |-> FALSE]
    ELSE IF ~resp.json
         THEN [key |-> Nil, err |-> Err("cannot decode travis public key"), panic |-> FALSE]
         ELSE parsePublicKey(resp.public_key)

(* ------------------------------------------------------------------ *)
(* Requests                                                             *)
(* ------------------------------------------------------------------ *)

\* The payload form field of the body: absent, or present with a text.
NoField == [has |-> FALSE, text |-> <<>>]

Field(text) == [has |-> TRUE, text |-> text]

\* r.FormValue("payload"): the text of the field, "" when it is absent.
FormValue(r) == IF r.form.has THEN r.form.text ELSE <<>>

\* The form state of a request during a call: body is the payload field the
\* unread body holds (NoField once the body has been read), Form the parsed
\* form r.Form, nil until the body has been parsed.
FormState(body, parsed, form) == [body |-> body, parsed |-> parsed, form |-> form]

\* The request as the call receives it: body unread, r.Form nil.
Unparsed(r) == FormState(r.form, FALSE, NoField)

\* A FormValue that parses the body on every call.
formValueReparsing(fs) ==
    LET after == FormState(NoField, TRUE, fs.body)
    IN [text |-> FormValue(after), fs |-> after]

\* One call of r.FormValue("payload") (lines 118 and 126): the body is read
\* and parsed into r.Form if r.Form is nil, then the field is looked up in
\* r.Form.  Yields the text and the form state after the call.
formValue(fs) ==
    LET after == IF fs.parsed THEN fs ELSE FormState(NoField, TRUE, fs.body)
    IN [text |-> FormValue(after), fs |-> after]

Request(m, ct, sig, form) == [method |-> m, ctype |-> ct, signature |-> sig, form |-> form]

\* A genuine notification: signed by signer k over the text it carries.
Signed(k, text) == Request("POST", ContentTypeForm, Base64(Sign(k, payloadDigest(text))), Field(text))

GoodReq == Signed("K1", <<ObjA>>)

Requests ==
    { GoodReq,
      Signed("K2", <<ObjA>>),
      Signed("K1", <<ObjA, Junk>>),
      [GoodReq EXCEPT !.form = Field(<<ObjB>>)],
      [GoodReq EXCEPT !.form = NoField],
      [GoodReq EXCEPT !.signature = Base64(GarbageBytes)],
      [GoodReq EXCEPT !.signature = EmptyHeader],
      [GoodReq EXCEPT !.signature = NotBase64],
      [GoodReq EXCEPT !.signature = Base64ThenIllegal(Sign("K1", payloadDigest(<<ObjA>>)))],
      [GoodReq EXCEPT !.method = "GET"],
      [GoodReq EXCEPT !.ctype = ""],
      [GoodReq EXCEPT !.ctype = "application/x-www-form-urlencoded; charset=utf-8"],
      [GoodReq EXCEPT !.method = "GET", !.ctype = "application/json"],
      [GoodReq EXCEPT !.method = "GET", !.signature = EmptyHeader] }

\* A request the model uses where no request is involved.
NoRequest == Request("", "", EmptyHeader, NoField)

\* The checks with the content type compared up to its parameters.
checkRequestMediaType(r) ==
    IF r.method /= "POST"
    THEN [steps |-> <<"method">>,
          err |-> ErrArg("wrong request method instead of POST", r.method)]
    ELSE IF r.ctype \notin {ContentTypeForm, "application/x-www-form-urlencoded; charset=utf-8"}
         THEN [steps |-> <<"method", "ctype">>,
               err |-> ErrArg("wrong Content-Type header", r.ctype)]
         ELSE [steps |-> <<"method", "ctype">>, err |-> NoErr]

\* The checks without the method check of lines 100-102.
checkRequestAnyMethod(r) ==
    IF r.ctype /= ContentTypeForm
    THEN [steps |-> <<"method", "ctype">>,
          err |-> ErrArg("wrong Content-Type header", r.ctype)]
    ELSE [steps |-> <<"method", "ctype">>, err |-> NoErr]

\* Lines 100-106 of GetPayloadFromRequest: the checks made before the key
\* is resolved.
checkRequest(r) ==
    IF r.method /= "POST"
    THEN [steps |-> <<"method">>,
          err |-> ErrArg("wrong request method instead of POST", r.method)]
    ELSE IF r.ctype /= ContentTypeForm
         THEN [steps |-> <<"method", "ctype">>,
               err |-> ErrArg("wrong Content-Type header", r.ctype)]
         ELSE [steps |-> <<"method", "ctype">>, err |-> NoErr]

\* Lines 113-131 with the error of the signature looked at only after the
\* verification.
authenticateVerifyFirst(r, k) ==
    LET sig == parsePayloadSignature(r)
        f1 == formValue(Unparsed(r))
        digest == payloadDigest(f1.text)
    IN IF ~VerifyPKCS1v15(k, digest, sig.bytes)
       THEN [steps |-> <<"signature", "digest", "verify">>, texts |-> <<f1.text>>,
             payload |-> NilPayload, err |-> Err("unauthorized payload")]
       ELSE IF sig.err /= NoErr
            THEN [steps |-> <<"signature", "digest", "verify">>, texts |-> <<f1.text>>,
                  payload |-> NilPayload, err |-> sig.err]
            ELSE LET f2 == formValue(f1.fs)
                     d == jsonUnmarshal(f2.text)
                 IN IF d.err
                    THEN [steps |-> <<"signature", "digest", "verify", "decode">>,
                          texts |-> <<f1.text, f2.text>>,
                          payload |-> NilPayload, err |-> Err("cannot decode payload")]
                    ELSE [steps |-> <<"signature", "digest", "verify", "decode">>,
                          texts |-> <<f1.text, f2.text>>,
                          payload |-> d.p, err |-> NoErr]

\* Lines 113-131 of GetPayloadFromRequest: what the call does once
\* travisPublicKey has returned key k.  texts are the texts the call read
\* from the payload field, in the order it read them.
authenticate(r, k) ==
    LET sig == parsePayloadSignature(r)
    IN IF sig.err /= NoErr
       THEN [steps |-> <<"signature">>, texts |-> <<>>,
             payload |-> NilPayload, err |-> sig.err]
       ELSE LET f1 == formValue(Unparsed(r))
                digest == payloadDigest(f1.text)
            IN IF ~VerifyPKCS1v15(k, digest, sig.bytes)
               THEN [steps |-> <<"signature", "digest", "verify">>, texts |-> <<f1.text>>,
                     payload |-> NilPayload, err |-> Err("unauthorized payload")]
               ELSE LET f2 == formValue(f1.fs)
                        d == jsonUnmarshal(f2.text)
                    IN IF d.err
                       THEN [steps |-> <<"signature", "digest", "verify", "decode">>,
                             texts |-> <<f1.text, f2.text>>,
                             payload |-> NilPayload, err |-> Err("cannot decode payload")]
                       ELSE [steps |-> <<"signature", "digest", "verify", "decode">>,
                             texts |-> <<f1.text, f2.text>>,
                             payload |-> d.p, err |-> NoErr]

(* ------------------------------------------------------------------ *)
(* The predicate methods of Payload (lines 223-281)                     *)
(* ------------------------------------------------------------------ *)

Pending(p) == p.StatusMessage = "Pending" \/ p.ResultMessage = "Pending"

Passed(p) == p.StatusMessage = "Passed" \/ p.ResultMessage = "Passed"

Fixed(p) == p.StatusMessage = "Fixed" \/ p.ResultMessage = "Fixed"

Broken(p) == p.StatusMessage = "Broken" \/ p.ResultMessage = "Broken"

Failed(p) == p.StatusMessage = "Failed" \/ p.ResultMessage = "Failed"

\* StillFailing answering for a plain failure as well.
StillFailingOrFailed(p) ==
    \/ p.StatusMessage \in {"Still Failing", "Failed"}
    \/ p.ResultMessage \in {"Still Failing", "Failed"}

StillFailing(p) == p.StatusMessage = "Still Failing" \/ p.ResultMessage = "Still Failing"

Canceled(p) == p.StatusMessage = "Canceled" \/ p.ResultMessage = "Canceled"

Errored(p) == p.StatusMessage = "Errored" \/ p.ResultMessage = "Errored"

IsPullRequest(p) == p.Type = "pull_request"

IsPush(p) == p.Type = "push"

IsCron(p) == p.Type = "cron"

IsAPI(p) == p.Type = "api"

\* The answers of the twelve methods on p, each under the word it tests for.
Answers(p) ==
    [state |-> [Pending |-> Pending(p), Passed |-> Passed(p), Fixed |-> Fixed(p),
                Broken |-> Broken(p), Failed |-> Failed(p),
                StillFailing |-> StillFailing(p), Canceled |-> Canceled(p),
                Errored |-> Errored(p)],
     type |-> [pull_request |-> IsPullRequest(p), push |-> IsPush(p),
               cron |-> IsCron(p), api |-> IsAPI(p)]]

\* Payload values the methods are called on.
Subjects ==
    { [isNil |-> FALSE, ID |-> 1, StatusMessage |-> sm, ResultMessage |-> rm, Type |-> ty] :
        sm \in {"Pending", "Passed", "Fixed", "Broken", "Failed", "Still Failing",
                "Canceled", "Errored", "", "passed", "Unknown"},
        rm \in {"", "Passed", "Still Failing"},
        ty \in {"pull_request", "push", "cron", "api", "", "Push", "CRON", "deploy"} }

\* No method has been called.
NoAnswers == Answers(NilPayload)

NoProbe == [subject |-> NilPayload, called |-> FALSE, answers |-> NoAnswers]

(* ------------------------------------------------------------------ *)
(* State                                                                *)
(* ------------------------------------------------------------------ *)

\* travisPubKey  the package variable of line 81: Nil or the cached key
\* endpoint      what the provider's configuration endpoint serves now
\* pc[p]         where goroutine p is: "idle" (outside the package),
\*               "fetch" (before line 162), "store" (before line 182),
\*               "ret" (before line 184)
\* seen[p]       the value the call of p read from the slot at line 158
\* key[p]        the local variable key of travisPublicKey (line 176)
\* steps[p]      the steps the call of p has taken so far
\* assigns       how many times line 182 has assigned the slot
\* served        what the fetches made so far have yielded: "none" before the
\*               first fetch, a key while every fetch has yielded that one
\*               key, "mixed" otherwise
\* unfetched     the number of calls that found the slot empty at line 158,
\*               less the number of fetches issued at line 162
\* race          whether two accesses to the slot, one of them a write, were
\*               made by calls in flight at the same time
\* last          the call that finished last, with its input and outcome
\* probe         a Payload value and the answers of its predicate methods

\* The outcome record of a finished call.
Outcome(op, r, rd, sn, st, k, pl, e, pan) ==
    [op |-> op, req |-> r, reader |-> rd, seen |-> sn, steps |-> st,
     key |-> k, payload |-> pl, err |-> e, panicked |-> pan, texts |-> <<>>]

\* The outcome of a call that went through lines 113-131 with result a.
Authenticating(out, a) == [out EXCEPT !.texts = a.texts]

NoCall == Outcome("none", NoRequest, NilReader, Nil, <<>>, Nil, NilPayload, NoErr, FALSE)

\* Requests that pass the checks of lines 100-106.
Accepted == { r \in Requests : checkRequest(r).err = NoErr }

\* Streams handed to GetPayload.
Readers ==
    { NilReader, Reader(<<>>), Reader(<<ObjA>>), Reader(<<ArrC>>),
      Reader(<<Junk>>), Reader(<<ObjA, Junk>>) }

\* The history of fetches after one more fetch has met response resp.
Served(resp) ==
    LET k == fetchKey(resp).key
    IN IF k /= Nil /\ served \in {"none", k} THEN k ELSE "mixed"

\* Goroutine q is inside travisPublicKey and has read the slot (line 158).
HasRead(q) == pc[q] \in {"fetch", "store", "ret"}

\* Goroutine q is inside travisPublicKey and has written the slot (line 182).
HasWritten(q) == pc[q] = "ret"

\* A read of the slot by p is unordered against the write of a call in flight.
ReadRaces(p) == \E q \in Procs \ {p} : HasWritten(q)

\* A write of the slot by p is unordered against the accesses of a call in flight.
WriteRaces(p) == \E q \in Procs \ {p} : HasRead(q)

Init ==
    /\ travisPubKey = Nil
    /\ endpoint \in Responses
    /\ pc = [p \in Procs |-> "idle"]
    /\ seen = [p \in Procs |-> Nil]
    /\ key = [p \in Procs |-> Nil]
    /\ steps = [p \in Procs |-> <<>>]
    /\ assigns = 0
    /\ served = "none"
    /\ unfetched = 0
    /\ race = FALSE
    /\ last = NoCall
    /\ probe = NoProbe

\* The call of p ends: its outcome is recorded and p leaves the package.
Finish(p, out) ==
    /\ last' = out
    /\ pc' = [pc EXCEPT ![p] = "idle"]
    /\ seen' = [seen EXCEPT ![p] = Nil]
    /\ key' = [key EXCEPT ![p] = Nil]
    /\ steps' = [steps EXCEPT ![p] = <<>>]

\* Line 158 never finding the key: every call fetches.
cacheHitNever(slot) == FALSE

\* The test of line 158 on the value read from the slot.
cacheHit(slot) == slot /= Nil

\* GetPayloadFromRequest rejects the request at line 101 or 105.
BeginRejected(p) ==
    /\ pc[p] = "idle"
    /\ \E r \in Requests :
         LET c == checkRequest(r)
         IN /\ c.err /= NoErr
            /\ Finish(p, Outcome("GetPayloadFromRequest", r, NilReader, Nil, c.steps,
                                 Nil, NilPayload, c.err, FALSE))
    /\ UNCHANGED <<travisPubKey, endpoint, assigns, served, unfetched, race, probe>>

\* GetPayloadFromRequest on a request that passes lines 100-106, with the
\* slot found set at line 158: the call runs to its end on the cached key.
BeginCached(p) ==
    /\ pc[p] = "idle"
    /\ cacheHit(travisPubKey)
    /\ \E r \in Accepted :
         LET k == travisPubKey
             a == authenticate(r, k)
         IN Finish(p, Authenticating(
                          Outcome("GetPayloadFromRequest", r, NilReader, travisPubKey,
                                  checkRequest(r).steps \o <<"key">> \o a.steps,
                                  k, a.payload, a.err, FALSE), a))
    /\ race' = (race \/ ReadRaces(p))
    /\ UNCHANGED <<travisPubKey, endpoint, assigns, served, unfetched, probe>>

\* The same with the slot found nil at line 158: the call goes on to fetch.
BeginCold(p) ==
    /\ pc[p] = "idle"
    /\ ~cacheHit(travisPubKey)
    /\ \E r \in Accepted : TRUE
    /\ seen' = [seen EXCEPT ![p] = travisPubKey]
    /\ steps' = [steps EXCEPT ![p] = <<"method", "ctype", "key">>]
    /\ pc' = [pc EXCEPT ![p] = "fetch"]
    /\ race' = (race \/ ReadRaces(p))
    /\ unfetched' = unfetched + (IF travisPubKey = Nil THEN 1 ELSE 0)
    /\ UNCHANGED <<travisPubKey, endpoint, key, assigns, served, last, probe>>

\* Lines 162-179 end in an error: travisPublicKey returns it and line 110
\* returns it to the caller.
FetchFails(p) ==
    /\ pc[p] = "fetch"
    /\ LET f == fetchKey(endpoint)
       IN /\ ~f.panic
          /\ f.err /= NoErr
          /\ \E r \in Accepted :
               Finish(p, Outcome("GetPayloadFromRequest", r, NilReader, seen[p],
                                 steps[p] \o <<"fetch">>, Nil, NilPayload, f.err, FALSE))
    /\ served' = Served(endpoint)
    /\ unfetched' = unfetched - 1
    /\ UNCHANGED <<travisPubKey, endpoint, assigns, race, probe>>

\* Line 201 panics: the call unwinds without returning anything.
FetchPanics(p) ==
    /\ pc[p] = "fetch"
    /\ fetchKey(endpoint).panic
    /\ \E r \in Accepted :
         Finish(p, Outcome("GetPayloadFromRequest", r, NilReader, seen[p],
                           steps[p] \o <<"fetch">>, Nil, NilPayload, NoErr, TRUE))
    /\ served' = Served(endpoint)
    /\ unfetched' = unfetched - 1
    /\ UNCHANGED <<travisPubKey, endpoint, assigns, race, probe>>

\* Lines 162-179 yield a key.
FetchParses(p) ==
    /\ pc[p] = "fetch"
    /\ LET f == fetchKey(endpoint)
       IN /\ ~f.panic
          /\ f.err = NoErr
          /\ key' = [key EXCEPT ![p] = f.key]
    /\ pc' = [pc EXCEPT ![p] = "store"]
    /\ steps' = [steps EXCEPT ![p] = steps[p] \o <<"fetch">>]
    /\ served' = Served(endpoint)
    /\ unfetched' = unfetched - 1
    /\ UNCHANGED <<travisPubKey, endpoint, seen, assigns, race, last, probe>>

\* Line 182 left out: the call goes on without assigning the slot.
StoreNothing(p) ==
    /\ pc[p] = "store"
    /\ pc' = [pc EXCEPT ![p] = "ret"]
    /\ steps' = [steps EXCEPT ![p] = steps[p] \o <<"store">>]
    /\ UNCHANGED <<travisPubKey, assigns, race, endpoint, seen, key, served, unfetched,
                   last, probe>>

\* Line 182: travisPubKey = key.
Store(p) ==
    /\ pc[p] = "store"
    /\ travisPubKey' = key[p]
    /\ assigns' = assigns + 1
    /\ race' = (race \/ WriteRaces(p))
    /\ pc' = [pc EXCEPT ![p] = "ret"]
    /\ steps' = [steps EXCEPT ![p] = steps[p] \o <<"store">>]
    /\ UNCHANGED <<endpoint, seen, key, served, unfetched, last, probe>>

\* Return with the slot emptied again when the request is rejected.
ReturnRollingBack(p) ==
    /\ pc[p] = "ret"
    /\ \E k \in {key[p], travisPubKey} :
         \E r \in Accepted :
           LET a == authenticate(r, k)
           IN /\ Finish(p, Authenticating(
                               Outcome("GetPayloadFromRequest", r, NilReader, seen[p],
                                       steps[p] \o a.steps, k, a.payload, a.err, FALSE), a))
              /\ travisPubKey' = IF a.err /= NoErr THEN Nil ELSE travisPubKey
    /\ race' = (race \/ ReadRaces(p))
    /\ UNCHANGED <<endpoint, assigns, served, unfetched, probe>>

\* Line 184 returns travisPubKey: the value p has just written, or the value
\* another goroutine has written over it since.  The call then runs to its
\* end on the key returned.
Return(p) ==
    /\ pc[p] = "ret"
    /\ \E k \in {key[p], travisPubKey} :
         \E r \in Accepted :
           LET a == authenticate(r, k)
           IN Finish(p, Authenticating(
                            Outcome("GetPayloadFromRequest", r, NilReader, seen[p],
                                    steps[p] \o a.steps, k, a.payload, a.err, FALSE), a))
    /\ race' = (race \/ ReadRaces(p))
    /\ UNCHANGED <<travisPubKey, endpoint, assigns, served, unfetched, probe>>

\* GetPayload with the slot emptied on the way.
CallGetPayloadClearing ==
    /\ \E rd \in Readers :
         LET g == GetPayload(rd)
         IN last' = Outcome("GetPayload", NoRequest, rd, Nil, <<>>, Nil,
                            g.payload, g.err, FALSE)
    /\ travisPubKey' = Nil
    /\ UNCHANGED <<endpoint, pc, seen, key, steps, assigns, served, unfetched, race, probe>>

\* A call of GetPayload on a reader.
CallGetPayload ==
    /\ \E rd \in Readers :
         LET g == GetPayload(rd)
         IN last' = Outcome("GetPayload", NoRequest, rd, Nil, <<>>, Nil,
                            g.payload, g.err, FALSE)
    /\ UNCHANGED <<travisPubKey, endpoint, pc, seen, key, steps, assigns, served, unfetched,
                   race, probe>>

\* The provider's endpoint starts serving something else.
EndpointChanges ==
    /\ \E resp \in Responses \ {endpoint} : endpoint' = resp
    /\ UNCHANGED <<travisPubKey, pc, seen, key, steps, assigns, served, unfetched, race,
                   last, probe>>

Next ==
    \/ \E p \in Procs : BeginRejected(p)
    \/ \E p \in Procs : BeginCached(p)
    \/ \E p \in Procs : BeginCold(p)
    \/ \E p \in Procs : FetchFails(p)
    \/ \E p \in Procs : FetchPanics(p)
    \/ \E p \in Procs : FetchParses(p)
    \/ \E p \in Procs : Store(p)
    \/ \E p \in Procs : Return(p)
    \/ CallGetPayload
    \/ EndpointChanges

Spec == Init /\ [][Next]_vars

\* A call inside travisPublicKey takes its next step: http.Get returns (the
\* client gives up on an unreachable endpoint), the body is decoded and
\* parsed, the slot is assigned, the function returns.
Proceed(p) ==
    \/ FetchFails(p)
    \/ FetchPanics(p)
    \/ FetchParses(p)
    \/ Store(p)
    \/ Return(p)

\* A caller invokes GetPayloadFromRequest with a request that passes lines
\* 100-107.
Invoke == \E p \in Procs : BeginCold(p) \/ BeginCached(p)

\* The inputs of the callers of LiveSpec: a request refused at line 100, a
\* request that is accepted, and one stream.
LiveRequests == { NoRequest, GoodReq, [GoodReq EXCEPT !.method = "GET"] }

LiveReaders == { Reader(<<ObjA>>) }

\* The answers the endpoint of LiveSpec changes to: a failure that is an
\* error, the failure that is a panic, and the two keys.
LiveResponses == { Unreachable, NonRSAResponse } \cup { KeyResponse(k) : k \in RSAKeys }

\* The call that finishes in this step, if one does, was made with one of
\* those inputs, and the endpoint, if it changes, changes to one of those
\* answers.
LiveInputs ==
    /\ last'.req \in LiveRequests
    /\ last'.op = "GetPayload" => last'.reader \in LiveReaders
    /\ endpoint' /= endpoint => endpoint' \in LiveResponses

LiveNext ==
    \/ \E p \in Procs : BeginRejected(p) /\ LiveInputs
    \/ \E p \in Procs : BeginCached(p) /\ LiveInputs
    \/ \E p \in Procs : BeginCold(p) /\ LiveInputs
    \/ \E p \in Procs : FetchFails(p) /\ LiveInputs
    \/ \E p \in Procs : FetchPanics(p) /\ LiveInputs
    \/ \E p \in Procs : FetchParses(p) /\ LiveInputs
    \/ \E p \in Procs : Store(p) /\ LiveInputs
    \/ \E p \in Procs : Return(p) /\ LiveInputs
    \/ CallGetPayload /\ LiveInputs
    \/ EndpointChanges /\ LiveInputs

\* The program with callers that keep invoking GetPayloadFromRequest and a
\* scheduler that lets every call in flight run on.  Invoke and Proceed(p)
\* are enabled with a request of LiveRequests whenever they are enabled at
\* all, so the fairness conditions ask for no step LiveNext forbids.
LiveSpec ==
    /\ Init
    /\ [][LiveNext]_vars
    /\ WF_vars(Invoke)
    /\ \A p \in Procs : WF_vars(Proceed(p))

\* The predicate methods on their own: a Payload value is given and its
\* methods are called on it.
InitPredicates ==
    /\ travisPubKey = Nil
    /\ endpoint = Unreachable
    /\ pc = [p \in Procs |-> "idle"]
    /\ seen = [p \in Procs |-> Nil]
    /\ key = [p \in Procs |-> Nil]
    /\ steps = [p \in Procs |-> <<>>]
    /\ assigns = 0
    /\ served = "none"
    /\ unfetched = 0
    /\ race = FALSE
    /\ last = NoCall
    /\ \E p \in Subjects : probe = [subject |-> p, called |-> FALSE, answers |-> NoAnswers]

CallPredicates ==
    /\ ~probe.called
    /\ probe' = [probe EXCEPT !.called = TRUE, !.answers = Answers(probe.subject)]
    /\ UNCHANGED <<travisPubKey, endpoint, pc, seen, key, steps, assigns, served, unfetched,
                   race, last>>

NextPredicates == CallPredicates

SpecPredicates == InitPredicates /\ [][NextPredicates]_vars

(* ------------------------------------------------------------------ *)
(* Properties                                                           *)
(* ------------------------------------------------------------------ *)

Range(f) == { f[i] : i \in DOMAIN f }

\* The last call that finished was a call of GetPayloadFromRequest.
Authenticated == last.op = "GetPayloadFromRequest"

\* The Signature header of request r is the base64 text of some bytes.
SignatureDecodes(r) == r.signature.enc = "b64"

\* The signature request r carries is the signature, under key k, of the
\* SHA-1 digest of the text of its payload field.
GenuineFor(r, k) ==
    /\ SignatureDecodes(r)
    /\ r.signature.raw.signer = k
    /\ r.signature.raw.digest = <<"sha1", IF r.form.has THEN r.form.text ELSE <<>> >>

\* C1: GetPayloadFromRequest returns a Payload only if the method is POST, the
\* content type is the form type, a key was resolved, the Signature header
\* decoded and the signature verified against that key; in every other outcome
\* it returns an error and no Payload, so that exactly one of the two is
\* non-nil.
C1_PayloadOnlyWhenEveryStepSucceeded ==
    Authenticated =>
      /\ last.payload.isNil <=> (last.err /= NoErr)
      /\ ~last.payload.isNil =>
           /\ last.req.method = "POST"
           /\ last.req.ctype = ContentTypeForm
           /\ last.key \in RSAKeys
           /\ GenuineFor(last.req, last.key)

\* C2: a request whose method is not POST fails with the wrong-method error
\* naming its method, having taken no step after the method check: no key
\* resolution, no fetch, no signature extraction, no verification.
C2_WrongMethodRejectedFirst ==
    (Authenticated /\ last.req.method /= "POST") =>
      /\ last.err = ErrArg("wrong request method instead of POST", last.req.method)
      /\ last.payload.isNil
      /\ last.steps = <<"method">>
      /\ last.key = Nil

\* A GET request with otherwise correct headers and body was rejected while
\* the cache held a key.
C2_Witness ==
    /\ Authenticated
    /\ last.req = [GoodReq EXCEPT !.method = "GET"]
    /\ last.err.arg = "GET"
    /\ travisPubKey /= Nil

\* C3: while the endpoint serves one well-formed RSA key, the slot is assigned
\* exactly once however many first calls race, and every call that resolves a
\* key resolves that key.
C3_AssignedOnce ==
    served \in RSAKeys =>
      /\ assigns <= 1
      /\ (Authenticated /\ last.key /= Nil) => last.key = served

\* C4: no write of the slot is unordered against another call's access to it.
C4_NoDataRace == ~race

FailedFetch(resp) ==
    \/ resp.neterr
    \/ ~resp.json
    \/ resp.public_key.label /= "PUBLIC KEY"
    \/ Len(resp.public_key.der) = 0
    \/ resp.public_key.der[1] /= "pkix"

KeyErrors ==
    { Err("cannot fetch travis public key"),
      Err("cannot decode travis public key"),
      Err("invalid public key") }

\* C6: a fetch that meets a failure ends the call with a key error and no
\* Payload and leaves the slot as it was, never assigning it; and a call that
\* found the slot empty has made a fetch of its own.
C6_FailedFetchLeavesCacheEmpty ==
    /\ [](Authenticated =>
            /\ last.err \in KeyErrors =>
                 (last.key = Nil /\ last.payload.isNil /\ "store" \notin Range(last.steps))
            /\ (last.seen = Nil /\ "key" \in Range(last.steps)) =>
                 "fetch" \in Range(last.steps))
    /\ [][\A p \in Procs :
            (pc[p] = "fetch" /\ pc'[p] /= "fetch" /\ FailedFetch(endpoint)) =>
               /\ pc'[p] = "idle"
               /\ last'.err \in KeyErrors
               /\ ~last'.panicked
               /\ travisPubKey' = travisPubKey
               /\ assigns' = assigns]_vars

\* After a failed fetch the slot is empty and another call is fetching.
C6_Witness ==
    /\ Authenticated
    /\ last.err = Err("cannot decode travis public key")
    /\ travisPubKey = Nil
    /\ \E p \in Procs : pc[p] = "fetch"

\* C7: when the endpoint serves a PEM "PUBLIC KEY" block holding a valid PKIX
\* key that is not RSA, the call returns the "invalid public key" error, does
\* not panic, and the slot stays as it was.
C7_NonRSAKeyIsAnError ==
    [][\A p \in Procs :
         (pc[p] = "fetch" /\ pc'[p] /= "fetch" /\ endpoint = NonRSAResponse) =>
            /\ last'.err = Err("invalid public key")
            /\ ~last'.panicked
            /\ travisPubKey' = travisPubKey]_vars

\* C8: once method, content type, key resolution and signature decoding have
\* passed, a signature that is not the signature of the digest of the payload
\* field under the resolved key yields "unauthorized payload" and no Payload,
\* whatever the reason it is not.
C8_OneUnauthorizedError ==
    ( /\ Authenticated
      /\ last.req.method = "POST"
      /\ last.req.ctype = ContentTypeForm
      /\ last.key /= Nil
      /\ SignatureDecodes(last.req)
      /\ ~GenuineFor(last.req, last.key) ) =>
        (last.err = Err("unauthorized payload") /\ last.payload.isNil)

\* A request whose payload text was altered after signing was rejected.
C8_Witness ==
    /\ Authenticated
    /\ last.req = [GoodReq EXCEPT !.form = Field(<<ObjB>>)]
    /\ last.key = "K1"
    /\ last.err = Err("unauthorized payload")

\* C9: a POST request whose Content-Type is not exactly the form type is
\* rejected with the wrong-content-type error naming the value, with no key
\* resolution and no fetch; when the method is wrong too, the method error is
\* the one returned.
C9_WrongContentTypeRejected ==
    /\ (Authenticated /\ last.req.method = "POST" /\ last.req.ctype /= ContentTypeForm) =>
         /\ last.err = ErrArg("wrong Content-Type header", last.req.ctype)
         /\ last.payload.isNil
         /\ last.steps = <<"method", "ctype">>
         /\ last.key = Nil
    /\ (Authenticated /\ last.req.method /= "POST" /\ last.req.ctype /= ContentTypeForm) =>
         last.err.msg = "wrong request method instead of POST"

\* A POST request whose content type carries a parameter was rejected before
\* any fetch was made.
C9_Witness ==
    /\ Authenticated
    /\ last.req.method = "POST"
    /\ last.req.ctype = "application/x-www-form-urlencoded; charset=utf-8"
    /\ last.err.arg = last.req.ctype
    /\ served = "none"
    /\ travisPubKey = Nil

\* C10: GetPayload on a nil reader returns the nil-reader error and no
\* Payload; on a stream that is not syntactically valid JSON it returns
\* "cannot decode payload" and no Payload.
C10_InvalidJSONRejected ==
    last.op = "GetPayload" =>
      /\ last.reader.isNil =>
           (last.err = Err("can't parse from nil reader") /\ last.payload.isNil)
      /\ (~last.reader.isNil /\ ~ValidJSON(last.reader.data)) =>
           (last.err = Err("cannot decode payload") /\ last.payload.isNil)

StateWord ==
    [Pending |-> "Pending", Passed |-> "Passed", Fixed |-> "Fixed", Broken |-> "Broken",
     Failed |-> "Failed", StillFailing |-> "Still Failing", Canceled |-> "Canceled",
     Errored |-> "Errored"]

\* C11: on a Payload whose StatusMessage is a word of the state vocabulary and
\* whose ResultMessage is empty, the predicate of that word is true and the
\* other seven are false; IsPullRequest, IsPush, IsCron and IsAPI are true of
\* exactly the Type pull_request, push, cron and api, and all false of any
\* other Type, a different letter case included.
C11_PredicatesMatchVocabulary ==
    probe.called =>
      /\ probe.subject.ResultMessage = "" =>
           \A m \in DOMAIN StateWord :
             probe.answers.state[m] <=> (probe.subject.StatusMessage = StateWord[m])
      /\ \A t \in {"pull_request", "push", "cron", "api"} :
           probe.answers.type[t] <=> (probe.subject.Type = t)

\* The methods were called on a Payload with StatusMessage "Still Failing",
\* no ResultMessage and a Type in another letter case.
C11_Witness ==
    /\ probe.called
    /\ probe.subject.StatusMessage = "Still Failing"
    /\ probe.subject.ResultMessage = ""
    /\ probe.subject.Type = "CRON"
    /\ probe.answers.state.StillFailing
    /\ ~probe.answers.state.Failed
    /\ ~probe.answers.type.cron

\* C12: once the slot holds a key it holds that key in every later state,
\* also when a fetch that was in flight at the first assignment completes
\* later with another key.
C12_SlotKeepsFirstKey ==
    [][travisPubKey /= Nil => travisPubKey' = travisPubKey]_vars

\* The number of fetch steps in a sequence of steps.
Fetches(st) == Cardinality({ i \in DOMAIN st : st[i] = "fetch" })

\* C13: a call fetches at most once, and the fetches issued never outnumber
\* the calls that found the slot empty.
C13_AtMostOneFetchPerColdCall ==
    /\ unfetched >= 0
    /\ \A p \in Procs : Fetches(steps[p]) <= 1
    /\ Fetches(last.steps) <= 1

\* Two calls raced the cold start and each has fetched once.
C13_Witness ==
    /\ unfetched = 0
    /\ \E p, q \in Procs :
         /\ p /= q
         /\ pc[p] = "store" /\ Fetches(steps[p]) = 1
         /\ pc[q] = "store" /\ Fetches(steps[q]) = 1

\* The steps of GetPayloadFromRequest in the order of lines 100-131.
Pipeline == <<"method", "ctype", "key", "signature", "digest", "verify", "decode">>

\* The steps of the pipeline among the steps a call went through.
Stages(st) == SelectSeq(st, LAMBDA s : s \notin {"fetch", "store"})

IsPrefix(a, b) == Len(a) <= Len(b) /\ a = SubSeq(b, 1, Len(a))

\* The call stopped at step s with error e.
StoppedAt(s, e) ==
    /\ Stages(last.steps) /= <<>>
    /\ Stages(last.steps)[Len(Stages(last.steps))] = s
    /\ last.err = e

\* C14: a call that returns runs key resolution, signature extraction, digest
\* and verification, JSON decoding in that order and stops at the first step
\* that fails, with that step's error: a key error whatever the Signature
\* header is, a signature error before any verification, "unauthorized
\* payload" before any decoding.
C14_ErrorOfFirstFailingStep ==
    (Authenticated /\ ~last.panicked) =>
      /\ IsPrefix(Stages(last.steps), Pipeline)
      /\ checkRequest(last.req).err = NoErr =>
           IF last.key = Nil
           THEN \E e \in KeyErrors : StoppedAt("key", e)
           ELSE IF last.req.signature.enc = "empty"
           THEN StoppedAt("signature", Err("missing Signature header"))
           ELSE IF ~SignatureDecodes(last.req)
           THEN StoppedAt("signature", Err("cannot decode signature"))
           ELSE IF ~GenuineFor(last.req, last.key)
           THEN StoppedAt("verify", Err("unauthorized payload"))
           ELSE IF jsonUnmarshal(FormValue(last.req)).err
           THEN StoppedAt("decode", Err("cannot decode payload"))
           ELSE StoppedAt("decode", NoErr)

\* A key error returned to a request that carries no Signature header.
C14_Witness ==
    /\ Authenticated
    /\ ~last.panicked
    /\ last.err \in KeyErrors
    /\ last.req.signature = EmptyHeader
    /\ Stages(last.steps) = <<"method", "ctype", "key">>

\* The last call that finished went through parsePayloadSignature.
ExtractedSignature == Authenticated /\ "signature" \in Range(last.steps)

\* C15: parsePayloadSignature fails with "missing Signature header" exactly
\* when the header is absent or empty and with "cannot decode signature"
\* exactly when it is non-empty and not base64 from end to end; any other
\* header goes on to the verification with its decoded bytes, whatever they
\* are; and the step in which it runs leaves the key slot as it was.
C15_SignatureExtraction ==
    /\ [](ExtractedSignature =>
            /\ last.err = Err("missing Signature header")
                 <=> last.req.signature.enc = "empty"
            /\ last.err = Err("cannot decode signature")
                 <=> last.req.signature.enc \notin {"empty", "b64"}
            /\ last.req.signature.enc = "b64" =>
                 /\ "verify" \in Range(last.steps)
                 /\ last.err /= Err("unauthorized payload")
                      <=> GenuineFor(last.req, last.key))
    /\ [](Authenticated /\ last.err \in {Err("missing Signature header"),
                                         Err("cannot decode signature")}
            => ExtractedSignature)
    /\ [][(last' /= last /\ ExtractedSignature')
            => /\ travisPubKey' = travisPubKey
               /\ assigns' = assigns
               /\ served' = served]_vars

\* A base64 text followed by an illegal character was refused by a call that
\* had resolved the key.
C15_Witness ==
    /\ ExtractedSignature
    /\ last.key /= Nil
    /\ last.req.signature.enc = "b64+illegal"
    /\ last.err = Err("cannot decode signature")
    /\ travisPubKey /= Nil

\* The last call that finished went as far as json.Unmarshal (line 126).
Decoded == Authenticated /\ "decode" \in Range(last.steps)

\* C16: a call that reaches the JSON decoding has read the payload field
\* twice and got the same text both times, the text of the form field of the
\* request; the text it decodes is the text whose digest the signature
\* verifies, and a Payload returned is the decoding of that text.
C16_DecodedTextIsVerifiedText ==
    Decoded =>
      /\ Len(last.texts) = 2
      /\ last.texts[1] = last.texts[2]
      /\ last.texts[2] = FormValue(last.req)
      /\ VerifyPKCS1v15(last.key, payloadDigest(last.texts[2]), last.req.signature.raw)
      /\ last.err = NoErr =>
           /\ ~jsonUnmarshal(last.texts[1]).err
           /\ last.payload = jsonUnmarshal(last.texts[1]).p

\* A Payload was returned, decoded from the text that was verified.
C16_Witness ==
    /\ Decoded
    /\ last.err = NoErr
    /\ last.payload /= NilPayload
    /\ last.texts = << <<ObjA>>, <<ObjA>> >>
    /\ GenuineFor(last.req, last.key)

\* The endpoint is reachable and serves a valid RSA key.
ServesValidKey == endpoint \in { KeyResponse(k) : k \in RSAKeys }

\* C17: if from some point on the endpoint serves a valid RSA key, then,
\* callers invoking the authentication again and again, a call resolves the
\* key, and from some point on the slot holds a key for good, whatever
\* fetches failed before.
C17_EventuallyPopulated ==
    <>[]ServesValidKey =>
      /\ <>(Authenticated /\ last.key /= Nil)
      /\ <>[](travisPubKey /= Nil)

\* The slot was filled after a fetch had failed: the failure is the last
\* outcome returned, and the one assignment made is of the key now served.
C17_Witness ==
    /\ endpoint = KeyResponse("K1")
    /\ travisPubKey = "K1"
    /\ assigns = 1
    /\ served = "mixed"
    /\ Authenticated
    /\ last.seen = Nil
    /\ last.err \in KeyErrors

\* The last call that finished went past lines 100-107 and read an empty slot
\* at line 158.
ColdCall ==
    /\ Authenticated
    /\ checkRequest(last.req).err = NoErr
    /\ last.seen = Nil

\* C18: a call that passes the method and content-type checks and finds the
\* slot empty makes a fetch; if the fetch yields a key the call assigns the
\* slot, and the slot holds a key when the call ends whatever the call then
\* returns; and no step of the program empties a slot that holds a key.
C18_RejectionKeepsCache ==
    /\ [](ColdCall => "fetch" \in Range(last.steps))
    /\ [](ColdCall /\ last.key /= Nil =>
            /\ "store" \in Range(last.steps)
            /\ travisPubKey /= Nil)
    /\ [][travisPubKey /= Nil => travisPubKey' /= Nil]_vars

\* A cold call fetched the key, filled the slot and then refused its request
\* as unauthorized.
C18_Witness ==
    /\ ColdCall
    /\ last.err = Err("unauthorized payload")
    /\ "store" \in Range(last.steps)
    /\ assigns = 1
    /\ travisPubKey /= Nil

\* C19: GetPayload reads no slot, makes no fetch and assigns nothing: the
\* outcome of a call records no read of the slot, no step of key resolution
\* and no key, and the step in which a call of GetPayload runs leaves the
\* slot, the count of assignments, the history of fetches and every call in
\* flight as they were.
C19_GetPayloadLeavesCacheAlone ==
    /\ [](last.op = "GetPayload" =>
            /\ last.seen = Nil
            /\ last.key = Nil
            /\ last.steps = <<>>)
    /\ [][(last'.op = "GetPayload" /\ last' /= last) =>
            /\ travisPubKey' = travisPubKey
            /\ assigns' = assigns
            /\ served' = served
            /\ unfetched' = unfetched
            /\ race' = race
            /\ pc' = pc
            /\ key' = key]_vars

\* GetPayload decoded a Payload while the slot held a key and another call
\* was about to fetch.
C19_Witness ==
    /\ last.op = "GetPayload"
    /\ last.err = NoErr
    /\ last.payload /= NilPayload
    /\ travisPubKey /= Nil
    /\ \E p \in Procs : pc[p] = "fetch"
====
